---- MODULE Spec2Model ----
(***************************************************************************)
(* A model of webscaper.py: the recursive, depth-bounded, visited-set      *)
(* guarded crawl of WebScraper.scrape_website, the robots.txt gate and the *)
(* fetch of WebScraper.download_page, the sink WebScraper.save_page with   *)
(* the path mapping WebScraper.get_filename, and the entry point main().   *)
(*                                                                         *)
(* Text (URLs, hrefs, file names) is a sequence of one-character strings,  *)
(* so that parsing, joining and sanitising act on characters as the code   *)
(* does.  A page's content is a sequence of elements; the empty sequence   *)
(* is the empty body "".                                                   *)
(***************************************************************************)
EXTENDS Integers, Sequences, FiniteSets, TLC

\* ------------------------------------------------------------------------
\* Bounds of the model
\* ------------------------------------------------------------------------

\* largest max_depth a run is configured with (the smallest is -1)
MaxDepthBound == 2

\* longest path of a URL given to get_filename on its own
MaxPathLen == 3

\* ------------------------------------------------------------------------
\* Text helpers
\* ------------------------------------------------------------------------

Letters ==
  {"a","b","c","d","e","f","g","h","i","j","k","l","m",
   "n","o","p","q","r","s","t","u","v","w","x","y","z"}

Digits == {"0","1","2","3","4","5","6","7","8","9"}

\* urllib.parse.scheme_chars
SchemeChars == Letters \cup Digits \cup {"+", "-", "."}

\* str.find(c): the first index of c in s, 0 when absent
Find(s, c) ==
  IF \E i \in 1..Len(s) : s[i] = c
    THEN CHOOSE i \in 1..Len(s) : s[i] = c /\ \A j \in 1..(i-1) : s[j] # c
    ELSE 0

\* str.rfind(c): the last index of c in s, 0 when absent
RFind(s, c) ==
  IF \E i \in 1..Len(s) : s[i] = c
    THEN CHOOSE i \in 1..Len(s) : s[i] = c /\ \A j \in (i+1)..Len(s) : s[j] # c
    ELSE 0

\* the first index of any character of cs in s, 0 when absent
FindAny(s, cs) ==
  IF \E i \in 1..Len(s) : s[i] \in cs
    THEN CHOOSE i \in 1..Len(s) : s[i] \in cs /\ \A j \in 1..(i-1) : s[j] \notin cs
    ELSE 0

Contains(s, c) == \E i \in 1..Len(s) : s[i] = c

\* s[i:] with a 1-based i
From(s, i) == SubSeq(s, i, Len(s))

\* s[:n]
Prefix(s, n) == SubSeq(s, 1, n)

\* str.replace(old, new) for a one-character old
Replace(s, old, new) == [i \in 1..Len(s) |-> IF s[i] = old THEN new ELSE s[i]]

StartsWith(s, p) == Len(s) >= Len(p) /\ Prefix(s, Len(p)) = p

EndsWith(s, c) == Len(s) > 0 /\ s[Len(s)] = c

\* ------------------------------------------------------------------------
\* urllib.parse as the code uses it
\* ------------------------------------------------------------------------

\* the scheme of url, when url starts with one: a letter, then scheme
\* characters, up to the first ':'
SchemeEndAt(url, i) ==
  IF i > 1 /\ url[1] \in Letters /\ \A j \in 1..(i-1) : url[j] \in SchemeChars
    THEN i ELSE 0

SchemeEnd(url) == SchemeEndAt(url, Find(url, ":"))

\* s split at index i, the character at i dropped; all of s when i = 0
SplitAtIndex(s, i) ==
  IF i > 0 THEN [head |-> Prefix(s, i - 1), tail |-> From(s, i + 1)]
           ELSE [head |-> s, tail |-> <<>>]

\* str.split(c, 1)
SplitAt(s, c) == SplitAtIndex(s, Find(s, c))

\* urlsplit: the scheme and what follows its ':'
SplitSchemeAt(url, default, i) ==
  IF i > 0 THEN [scheme |-> Prefix(url, i - 1), rest |-> From(url, i + 1)]
           ELSE [scheme |-> default, rest |-> url]

SplitScheme(url, default) == SplitSchemeAt(url, default, SchemeEnd(url))

\* urlsplit, _splitnetloc: the netloc after "//", up to the first of "/?#"
SplitNetlocAt(after, delim) ==
  IF delim = 0 THEN [netloc |-> after, rest |-> <<>>]
               ELSE [netloc |-> Prefix(after, delim - 1), rest |-> From(after, delim)]

SplitNetlocAfter(after) == SplitNetlocAt(after, FindAny(after, {"/", "?", "#"}))

SplitNetloc(rest) ==
  IF StartsWith(rest, <<"/", "/">>) THEN SplitNetlocAfter(From(rest, 3))
                                    ELSE [netloc |-> <<>>, rest |-> rest]

\* urlsplit raises ValueError("Invalid IPv6 URL") for such a netloc
BadBrackets(netloc) ==
  \/ Contains(netloc, "[") /\ ~Contains(netloc, "]")
  \/ Contains(netloc, "]") /\ ~Contains(netloc, "[")

ParseResult(scheme, netloc, pq, fragment) ==
  [scheme |-> scheme, netloc |-> netloc, path |-> pq.head, query |-> pq.tail,
   fragment |-> fragment, err |-> BadBrackets(netloc)]

ParseFromFragment(scheme, netloc, hf) ==
  ParseResult(scheme, netloc, SplitAt(hf.head, "?"), hf.tail)

ParseFromNetloc(scheme, net) ==
  ParseFromFragment(scheme, net.netloc, SplitAt(net.rest, "#"))

ParseFromScheme(ss) == ParseFromNetloc(ss.scheme, SplitNetloc(ss.rest))

\* urlparse(url, scheme=default): the components the code reads, and err
\* when urlsplit raises
urlparse_default(url, default) == ParseFromScheme(SplitScheme(url, default))

urlparse(url) == urlparse_default(url, <<>>)

\* urlunparse of the components
UnparseNetloc(netloc, path) ==
  IF netloc = <<>> THEN path
  ELSE IF path # <<>> /\ path[1] # "/" THEN <<"/", "/">> \o netloc \o <<"/">> \o path
  ELSE <<"/", "/">> \o netloc \o path

UnparseTail(query, fragment) ==
  (IF query # <<>> THEN <<"?">> \o query ELSE <<>>)
    \o (IF fragment # <<>> THEN <<"#">> \o fragment ELSE <<>>)

urlunparse(scheme, netloc, path, query, fragment) ==
  (IF scheme # <<>> THEN scheme \o <<":">> ELSE <<>>)
    \o UnparseNetloc(netloc, path) \o UnparseTail(query, fragment)

\* urljoin: the netloc, path and query of the result when url has the
\* scheme of the base (or none); paths have no "." and ".." segments
JoinedParts(b, u) ==
  IF u.netloc # <<>>
    THEN [netloc |-> u.netloc, path |-> u.path, query |-> u.query]
  ELSE IF u.path = <<>>
    THEN [netloc |-> b.netloc, path |-> b.path,
          query |-> IF u.query # <<>> THEN u.query ELSE b.query]
  ELSE IF u.path[1] = "/"
    THEN [netloc |-> b.netloc, path |-> u.path, query |-> u.query]
  ELSE [netloc |-> b.netloc,
        path |-> Prefix(b.path, RFind(b.path, "/")) \o u.path,
        query |-> u.query]

UnparseJoined(scheme, parts, fragment) ==
  urlunparse(scheme, parts.netloc, parts.path, parts.query, fragment)

JoinParsed(url, b, u) ==
  IF u.err THEN [err |-> TRUE, url |-> <<>>]
  ELSE IF u.scheme # b.scheme THEN [err |-> FALSE, url |-> url]
  ELSE [err |-> FALSE, url |-> UnparseJoined(u.scheme, JoinedParts(b, u), u.fragment)]

JoinWithBase(url, b) == JoinParsed(url, b, urlparse_default(url, b.scheme))

\* urljoin(base, url) for a base with an http or https scheme; err when
\* parsing url raises
urljoin(base, url) ==
  IF url = <<>> THEN [err |-> FALSE, url |-> base]
  ELSE JoinWithBase(url, urlparse(base))

\* ------------------------------------------------------------------------
\* WebScraper.get_filename
\* ------------------------------------------------------------------------

\* self.base_dir
base_dir == <<"/", "s">>

\* os.path.splitext(path)[1]: the extension of the last segment, a leading
\* run of dots of that segment not counting as the start of an extension
splitext_at(path, sep, dot) ==
  IF dot > sep /\ \E k \in (sep + 1)..(dot - 1) : path[k] # "."
    THEN From(path, dot) ELSE <<>>

splitext_ext(path) == splitext_at(path, RFind(path, "/"), RFind(path, "."))

\* os.path.join(a, b)
path_join(a, b) ==
  IF b # <<>> /\ b[1] = "/" THEN b
  ELSE IF a = <<>> \/ EndsWith(a, "/") THEN a \o b
  ELSE a \o <<"/">> \o b

\* lines 85-91: the path with index.html or .html added
filename_path(path) ==
  IF path = <<>> \/ path = <<"/">>
    THEN <<"/","i","n","d","e","x",".","h","t","m","l">>
  ELSE IF EndsWith(path, "/")
    THEN path \o <<"i","n","d","e","x",".","h","t","m","l">>
  ELSE IF splitext_ext(path) = <<>>
    THEN path \o <<".","h","t","m","l">>
  ELSE path

\* line 96
sanitize_path(path) == Replace(Replace(Replace(path, "?", "_"), "&", "_"), "=", "_")

\* line 94
sanitize_netloc(netloc) == Replace(netloc, ":", "_")

filename_of(parsed_url) ==
  path_join(base_dir, sanitize_netloc(parsed_url.netloc)
                        \o sanitize_path(filename_path(parsed_url.path)))

get_filename(url) == filename_of(urlparse(url))


\* ------------------------------------------------------------------------
\* URLs, hrefs and page contents of the modelled web
\* ------------------------------------------------------------------------

\* main(): starting_url
Seed == <<"h", "t", "t", "p", ":", "/", "/", "a", "/">>

U_p     == <<"h", "t", "t", "p", ":", "/", "/", "a", "/", "p">>
U_q     == <<"h", "t", "t", "p", ":", "/", "/", "a", "/", "q">>
U_r     == <<"h", "t", "t", "p", ":", "/", "/", "a", "/", "r">>
U_e     == <<"h", "t", "t", "p", ":", "/", "/", "a", "/", "e">>
U_px    == <<"h", "t", "t", "p", ":", "/", "/", "a", "/", "p", "?", "x", "=", "1">>
U_sp    == <<"h", "t", "t", "p", "s", ":", "/", "/", "a", "/", "p">>
U_sq    == <<"h", "t", "t", "p", "s", ":", "/", "/", "a", "/", "q">>
U_other == <<"h", "t", "t", "p", ":", "/", "/", "b", "/">>
U_ftp   == <<"f", "t", "p", ":", "/", "/", "a", "/", "d">>

H_root  == <<"/">>
H_p     == <<"/", "p">>
H_q     == <<"/", "q">>
H_r     == <<"/", "r">>
H_e     == <<"/", "e">>
H_px    == <<"/", "p", "?", "x", "=", "1">>
H_bad   == <<"h", "t", "t", "p", ":", "/", "/", "[">>
H_self  == <<>>

\* elements of a page's content: an anchor with an href, an anchor without
\* one, plain text, and markup on which the BeautifulSoup constructor raises
Anchor(h)    == [tag |-> "a", has_href |-> TRUE, href |-> h]
AnchorNoHref == [tag |-> "a", has_href |-> FALSE, href |-> <<>>]
Text         == [tag |-> "text", has_href |-> FALSE, href |-> <<>>]
Malformed    == [tag |-> "malformed", has_href |-> FALSE, href |-> <<>>]

\* the response text "" of a successful fetch
EmptyBody == <<>>

\* the scenario of one same-origin and one foreign link
WebTwoOrigins ==
  (Seed :> <<Anchor(H_p), Anchor(U_other)>>) @@ (U_p :> <<Text>>)
  @@ (U_other :> <<Anchor(Seed)>>)

\* absolute links of every kind, a cycle, a self link, a change of scheme
WebSchemes ==
  (Seed :> <<Anchor(U_p), Anchor(U_sp), Anchor(U_other), Anchor(U_ftp)>>)
  @@ (U_p :> <<Anchor(H_root), Anchor(H_self)>>)
  @@ (U_sp :> <<AnchorNoHref, Anchor(H_p), Anchor(H_q)>>)
  @@ (U_sq :> EmptyBody)
  @@ (U_ftp :> <<Text>>)

\* content that does not parse and an href that does not resolve
WebBroken ==
  (Seed :> <<Anchor(H_p), Anchor(H_q), Anchor(H_bad), Anchor(H_r)>>)
  @@ (U_p :> <<Malformed>>)
  @@ (U_q :> <<Anchor(H_e), Anchor(H_bad), Anchor(H_r)>>)
  @@ (U_r :> <<Text>>)

\* a page first met through a longer path than its shortest one
WebDiamond ==
  (Seed :> <<Anchor(H_p), Anchor(H_q)>>)
  @@ (U_p :> <<Anchor(H_q)>>)
  @@ (U_q :> <<Anchor(H_r)>>)
  @@ (U_r :> <<Text, Anchor(H_root)>>)

\* two URLs that differ in their query only, and an empty page
WebQuery ==
  (Seed :> <<Anchor(H_px), Anchor(H_p), Anchor(H_e)>>)
  @@ (U_px :> <<Text>>)
  @@ (U_p :> <<Text, Text>>)
  @@ (U_e :> EmptyBody)

\* the link graphs a run is checked on; a URL outside a graph is answered
\* with an error status
Webs == {WebTwoOrigins, WebSchemes, WebBroken, WebDiamond, WebQuery}

\* the outcomes of reading robots.txt and asking the parser
RobotsOutcomes == {"allow", "disallow", "error"}

\* main(), line 141: delay=1.0, the seconds time.sleep waits
delay == 1

\* most failures the environment injects in one run
MaxFaults == 2


\* ------------------------------------------------------------------------
\* State
\* ------------------------------------------------------------------------

VARIABLES
  web,            \* the link graph of this run: URL -> content served
  max_depth,      \* self.max_depth
  visited_urls,   \* self.visited_urls
  stack,          \* the call stack of scrape_website, the top frame last
  mainpc,         \* where main() is
  session_closes, \* how many times self.session.close() has run
  files,          \* the file system under base_dir: path -> content
  log,            \* what the run has done so far, in order
  faults,         \* failures injected so far
  fn_url,         \* the argument of a call of get_filename on its own
  fn_out          \* its result

vars == <<web, max_depth, visited_urls, stack, mainpc, session_closes,
          files, log, faults, fn_url, fn_out>>

crawl_vars == <<web, max_depth, visited_urls, stack, mainpc, session_closes,
                files, log, faults>>

\* one entry of the log
Event(ev, url, res, depth, data) ==
  [ev |-> ev, url |-> url, res |-> res, depth |-> depth, data |-> data]

\* a call of scrape_website(url, depth) about to run line 102
Frame(url, depth) ==
  [url |-> url, depth |-> depth, pc |-> "entry", html |-> <<>>, links |-> <<>>]

Top == stack[Len(stack)]

Running == mainpc = "running" /\ stack # <<>>

At(pc) == Running /\ Top.pc = pc

NoFile == <<"no file">>

\* ------------------------------------------------------------------------
\* The functions of WebScraper
\* ------------------------------------------------------------------------

\* can_fetch that answers True whatever the parser says
can_fetch_allows_all(outcome) == TRUE

\* can_fetch that answers False when reading robots.txt raises
can_fetch_fail_closed(outcome) == outcome = "allow"

\* can_fetch, lines 37-48, given what rp.read() and rp.can_fetch() do:
\* the parser's answer, or True when either raises
can_fetch(outcome) ==
  IF outcome = "error" THEN TRUE ELSE outcome = "allow"

\* line 40
robots_url(url) ==
  urlparse(url).scheme \o <<":", "/", "/">> \o urlparse(url).netloc
    \o <<"/","r","o","b","o","t","s",".","t","x","t">>

\* what session.get and raise_for_status do for url when nothing is injected
Response(url) ==
  IF url \in DOMAIN web THEN "ok" ELSE "request_exception"

\* the value download_page returns: None, or response.text
NoneResult == [none |-> TRUE, text |-> <<>>]

TextResult(text) == [none |-> FALSE, text |-> text]

\* line 113: "not html_content"
IsFalsy(html_content) == html_content.none \/ html_content.text = <<>>

\* line 106 without the depth test
StopsAtEntryVisitedOnly(depth, url) == url \in visited_urls

\* line 106 without the visited test
StopsAtEntryDepthOnly(depth, url) == depth < 0

\* line 106
StopsAtEntry(depth, url) == depth < 0 \/ url \in visited_urls

\* line 109 left out
MarkNothing(url) == visited_urls

\* line 109: self.visited_urls.add(url)
MarkVisited(url) == visited_urls \cup {url}

\* line 120: the BeautifulSoup constructor raises on this content
SoupRaises(html) == \E i \in 1..Len(html) : html[i].tag = "malformed"

\* line 122 with the matches taken last first
FindAllHrefsReversed(html) ==
  LET IsLink(e) == e.tag = "a" /\ e.has_href
      anchors   == SelectSeq(html, IsLink)
  IN [i \in 1..Len(anchors) |-> anchors[Len(anchors) + 1 - i].href]

\* line 122: soup.find_all("a", href=True), as the hrefs in document order
FindAllHrefs(html) ==
  LET IsLink(e) == e.tag = "a" /\ e.has_href
      anchors   == SelectSeq(html, IsLink)
  IN [i \in 1..Len(anchors) |-> anchors[i].href]

\* lines 129-130 without the test of the netloc
AnyDomainHttp(url, next_url) ==
  urlparse(next_url).scheme \in {<<"h","t","t","p">>, <<"h","t","t","p","s">>}

\* lines 129-130 without the test of the scheme
SameDomainAnyScheme(url, next_url) ==
  urlparse(next_url).netloc = urlparse(url).netloc

\* lines 129-130
SameDomainHttp(url, next_url) ==
  /\ urlparse(next_url).netloc = urlparse(url).netloc
  /\ urlparse(next_url).scheme \in {<<"h","t","t","p">>, <<"h","t","t","p","s">>}

\* line 132 with the depth passed on undiminished
SameDepth(depth) == depth

\* line 132: the depth of the recursive call, depth - 1
NextDepth(depth) == depth - 1

\* ------------------------------------------------------------------------
\* The functions above on the URLs of the modelled web, computed once
\* ------------------------------------------------------------------------

\* the pages served in some link graph
Pages == UNION {DOMAIN w : w \in Webs}

\* the href values found on them
Hrefs ==
  UNION {UNION {{FindAllHrefs(w[u])[i] : i \in 1..Len(FindAllHrefs(w[u]))} :
                  u \in DOMAIN w} : w \in Webs}

\* line 124 for every page and href
urljoin_of == [url \in Pages |-> [href \in Hrefs |-> urljoin(url, href)]]

\* the URLs scrape_website can be called with: the seed and resolved links
Urls ==
  {Seed} \cup Pages \cup
  {urljoin_of[url][href].url :
     <<url, href>> \in {uh \in Pages \X Hrefs : ~urljoin_of[uh[1]][uh[2]].err}}

\* lines 129-130 for every page and resolved link
same_domain_of ==
  [url \in Pages |-> [next_url \in Urls |-> SameDomainHttp(url, next_url)]]

\* line 40 for every URL
robots_url_of == [url \in Urls |-> robots_url(url)]

\* line 72 for every URL
get_filename_of == [url \in Urls |-> get_filename(url)]

\* ------------------------------------------------------------------------
\* How a call of scrape_website ends
\* ------------------------------------------------------------------------

\* the call on top of the stack returns to its caller
ReturnTop ==
  /\ stack' = Prefix(stack, Len(stack) - 1)
  /\ mainpc' = IF Len(stack) = 1 THEN "returned" ELSE "running"

\* an exception leaves the call on top of the stack at line 112, outside its
\* try: the caller is at line 132 inside its own try, catches it at line 133
\* and returns; with no caller it reaches main(), which does not catch it
RaiseTop ==
  /\ stack' = IF Len(stack) >= 2 THEN Prefix(stack, Len(stack) - 2) ELSE <<>>
  /\ mainpc' = IF Len(stack) = 1 THEN "raised"
               ELSE IF Len(stack) = 2 THEN "returned" ELSE "running"

ReturnEvent(why) == Event("return", Top.url, why, Top.depth, <<>>)

\* the log entries of RaiseTop: the raise, and the caller's catch and return
RaiseEvents ==
  IF Len(stack) >= 2
    THEN << Event("raise", Top.url, "other_exception", Top.depth, <<>>),
            Event("return", stack[Len(stack) - 1].url, "child_raised",
                  stack[Len(stack) - 1].depth, <<>>) >>
    ELSE << Event("raise", Top.url, "other_exception", Top.depth, <<>>) >>

\* ------------------------------------------------------------------------
\* Initial state
\* ------------------------------------------------------------------------

Init ==
  /\ web \in Webs
  /\ max_depth \in (-1)..MaxDepthBound
  /\ visited_urls = {}
  /\ stack = <<>>
  /\ mainpc = "start"
  /\ session_closes = 0
  /\ files = [f \in {} |-> NoFile]
  /\ log = <<>>
  /\ faults = 0
  /\ fn_url = <<>>
  /\ fn_out = <<>>

\* ------------------------------------------------------------------------
\* main() and scrape_website
\* ------------------------------------------------------------------------

\* main(), line 143, and lines 102-103: the seed call takes max_depth
Main ==
  /\ mainpc = "start"
  /\ mainpc' = "running"
  /\ stack' = << Frame(Seed, max_depth) >>
  /\ UNCHANGED <<web, max_depth, visited_urls, session_closes, files, log,
                 faults, fn_url, fn_out>>

\* lines 105-110
Enter ==
  /\ At("entry")
  /\ IF StopsAtEntry(Top.depth, Top.url)
       THEN /\ ReturnTop
            /\ log' = Append(log, ReturnEvent(IF Top.depth < 0 THEN "depth"
                                              ELSE "visited"))
            /\ UNCHANGED visited_urls
       ELSE /\ visited_urls' = MarkVisited(Top.url)
            /\ stack' = [stack EXCEPT ![Len(stack)].pc = "can_fetch"]
            /\ log' = Append(log, Event("scraping", Top.url, "", Top.depth, <<>>))
            /\ UNCHANGED mainpc
  /\ UNCHANGED <<web, max_depth, session_closes, files, faults, fn_url, fn_out>>

\* download_page, lines 54-56, with can_fetch, lines 35-48
CanFetch ==
  /\ At("can_fetch")
  /\ \E outcome \in RobotsOutcomes :
       /\ outcome # "allow" => faults < MaxFaults
       /\ faults' = IF outcome # "allow" THEN faults + 1 ELSE faults
       /\ IF can_fetch(outcome)
            THEN /\ stack' = [stack EXCEPT ![Len(stack)].pc = "sleep"]
                 /\ log' = Append(log, Event("robots", Top.url, outcome,
                                             Top.depth, robots_url_of[Top.url]))
                 /\ UNCHANGED mainpc
            ELSE /\ IsFalsy(NoneResult)
                 /\ ReturnTop
                 /\ log' = log \o
                      << Event("robots", Top.url, outcome, Top.depth,
                               robots_url_of[Top.url]),
                         ReturnEvent("no_content") >>
  /\ UNCHANGED <<web, max_depth, visited_urls, session_closes, files,
                 fn_url, fn_out>>

\* download_page with line 59 left out: the request follows at once
SleepSkipped ==
  /\ At("sleep")
  /\ stack' = [stack EXCEPT ![Len(stack)].pc = "get"]
  /\ log' = log
  /\ UNCHANGED <<web, max_depth, visited_urls, mainpc, session_closes, files,
                 faults, fn_url, fn_out>>

\* download_page, line 59
Sleep ==
  /\ At("sleep")
  /\ stack' = [stack EXCEPT ![Len(stack)].pc = "get"]
  /\ log' = Append(log, Event("sleep", Top.url, "", Top.depth, <<delay>>))
  /\ UNCHANGED <<web, max_depth, visited_urls, mainpc, session_closes, files,
                 faults, fn_url, fn_out>>

\* download_page, lines 61-67, and scrape_website, lines 112-114
Get ==
  /\ At("get")
  /\ \E res \in {"ok", "request_exception", "other_exception"} :
       /\ \/ res = Response(Top.url) /\ UNCHANGED faults
          \/ res # "ok" /\ faults < MaxFaults /\ faults' = faults + 1
       /\ CASE res = "ok" ->
                 LET html_content == TextResult(web[Top.url])
                 IN IF IsFalsy(html_content)
                      THEN /\ ReturnTop
                           /\ log' = log \o
                                << Event("get", Top.url, res, Top.depth,
                                         html_content.text),
                                   ReturnEvent("no_content") >>
                      ELSE /\ stack' = [stack EXCEPT
                                          ![Len(stack)].pc = "save",
                                          ![Len(stack)].html = html_content.text]
                           /\ log' = Append(log, Event("get", Top.url, res,
                                              Top.depth, html_content.text))
                           /\ UNCHANGED mainpc
            [] res = "request_exception" ->
                 /\ IsFalsy(NoneResult)
                 /\ ReturnTop
                 /\ log' = log \o << Event("get", Top.url, res, Top.depth, <<>>),
                                     ReturnEvent("no_content") >>
            [] res = "other_exception" ->
                 /\ RaiseTop
                 /\ log' = (log \o << Event("get", Top.url, res, Top.depth, <<>>) >>)
                             \o RaiseEvents
  /\ UNCHANGED <<web, max_depth, visited_urls, session_closes, files,
                 fn_url, fn_out>>

\* line 116 with save_page without its try: the I/O error leaves save_page and,
\* line 116 being outside the try of line 118, the call of scrape_website
SaveUncaught ==
  /\ At("save")
  /\ \E res \in {"ok", "io_error"} :
       /\ res = "io_error" => faults < MaxFaults
       /\ faults' = IF res = "io_error" THEN faults + 1 ELSE faults
       /\ files' = IF res = "ok"
                     THEN (get_filename_of[Top.url] :> Top.html) @@ files
                     ELSE files
       /\ IF res = "ok"
            THEN /\ stack' = [stack EXCEPT ![Len(stack)].pc = "parse"]
                 /\ log' = Append(log, Event("save", Top.url, res, Top.depth,
                                             Top.html))
                 /\ UNCHANGED mainpc
            ELSE /\ RaiseTop
                 /\ log' = Append(log, Event("save", Top.url, res, Top.depth,
                                             Top.html)) \o RaiseEvents
  /\ UNCHANGED <<web, max_depth, visited_urls, session_closes, fn_url, fn_out>>

\* line 116 with save_page, lines 69-80
Save ==
  /\ At("save")
  /\ \E res \in {"ok", "io_error"} :
       /\ res = "io_error" => faults < MaxFaults
       /\ faults' = IF res = "io_error" THEN faults + 1 ELSE faults
       /\ files' = IF res = "ok"
                     THEN (get_filename_of[Top.url] :> Top.html) @@ files
                     ELSE files
       /\ log' = Append(log, Event("save", Top.url, res, Top.depth, Top.html))
  /\ stack' = [stack EXCEPT ![Len(stack)].pc = "parse"]
  /\ UNCHANGED <<web, max_depth, visited_urls, mainpc, session_closes,
                 fn_url, fn_out>>

\* lines 118-122 with the try of line 118 left out: the error leaves the call
ParseUncaught ==
  /\ At("parse")
  /\ IF SoupRaises(Top.html)
       THEN /\ RaiseTop
            /\ log' = log \o RaiseEvents
       ELSE /\ stack' = [stack EXCEPT
                           ![Len(stack)].pc = "loop",
                           ![Len(stack)].links = FindAllHrefs(Top.html)]
            /\ log' = Append(log, Event("parsed", Top.url, "", Top.depth, <<>>))
            /\ UNCHANGED mainpc
  /\ UNCHANGED <<web, max_depth, visited_urls, session_closes, files, faults,
                 fn_url, fn_out>>

\* lines 118-122: the constructor and find_all; lines 133-135 when it raises
Parse ==
  /\ At("parse")
  /\ IF SoupRaises(Top.html)
       THEN /\ ReturnTop
            /\ log' = Append(log, ReturnEvent("parse_error"))
       ELSE /\ stack' = [stack EXCEPT
                           ![Len(stack)].pc = "loop",
                           ![Len(stack)].links = FindAllHrefs(Top.html)]
            /\ log' = Append(log, Event("parsed", Top.url, "", Top.depth, <<>>))
            /\ UNCHANGED mainpc
  /\ UNCHANGED <<web, max_depth, visited_urls, session_closes, files, faults,
                 fn_url, fn_out>>

\* one turn of the loop of lines 122-132, or its end
Loop ==
  /\ At("loop")
  /\ IF Top.links = <<>>
       THEN /\ ReturnTop
            /\ log' = Append(log, ReturnEvent("finished"))
       ELSE LET joined == urljoin_of[Top.url][Head(Top.links)]
                next_url == joined.url
            IN IF joined.err
                 THEN /\ ReturnTop
                      /\ log' = log \o
                           << Event("link", Top.url, "unresolved", Top.depth,
                                    Head(Top.links)),
                              ReturnEvent("parse_error") >>
                 ELSE IF same_domain_of[Top.url][next_url]
                   THEN /\ stack' = Append(
                              [stack EXCEPT ![Len(stack)].links = Tail(Top.links)],
                              Frame(next_url, NextDepth(Top.depth)))
                        /\ log' = Append(log, Event("link", Top.url, "followed",
                                                    Top.depth, next_url))
                        /\ UNCHANGED mainpc
                   ELSE /\ stack' = [stack EXCEPT
                                       ![Len(stack)].links = Tail(Top.links)]
                        /\ log' = Append(log, Event("link", Top.url, "skipped",
                                                    Top.depth, next_url))
                        /\ UNCHANGED mainpc
  /\ UNCHANGED <<web, max_depth, visited_urls, session_closes, files, faults,
                 fn_url, fn_out>>

\* KeyboardInterrupt while the traversal runs: no handler of WebScraper
\* catches it, lines 144-146 do
Interrupt ==
  /\ Running
  /\ stack' = <<>>
  /\ mainpc' = "interrupted"
  /\ log' = Append(log, Event("interrupt", Top.url, "", Top.depth, <<>>))
  /\ UNCHANGED <<web, max_depth, visited_urls, session_closes, files, faults,
                 fn_url, fn_out>>

\* session.close() after the try of line 142 without a finally: it runs only
\* when scrape_website returned
CloseWithoutFinally ==
  /\ mainpc = "returned"
  /\ session_closes' = session_closes + 1
  /\ mainpc' = "done"
  /\ log' = Append(log, Event("close", <<>>, "", 0, <<>>))
  /\ UNCHANGED <<web, max_depth, visited_urls, stack, files, faults,
                 fn_url, fn_out>>

\* main(), lines 147-149
Close ==
  /\ mainpc \in {"returned", "interrupted", "raised"}
  /\ session_closes' = session_closes + 1
  /\ mainpc' = IF mainpc = "raised" THEN "failed" ELSE "done"
  /\ log' = Append(log, Event("close", <<>>, "", 0, <<>>))
  /\ UNCHANGED <<web, max_depth, visited_urls, stack, files, faults,
                 fn_url, fn_out>>

Next ==
  \/ Main
  \/ Enter
  \/ CanFetch
  \/ Sleep
  \/ Get
  \/ Save
  \/ Parse
  \/ Loop
  \/ Interrupt
  \/ Close

Spec == Init /\ [][Next]_vars

\* the same runs, none of which stops while a statement can still execute:
\* main() is the one thread of control and every call it makes returns or raises
FairSpec == Spec /\ WF_vars(Next)


\* ------------------------------------------------------------------------
\* get_filename on its own
\* ------------------------------------------------------------------------

PathChars == {"/", "p", "."}

\* the paths of at most MaxPathLen characters: empty, or starting with "/"
FilenamePaths ==
  {<<>>} \cup
  UNION {{p \in [1..n -> PathChars] : p[1] = "/"} : n \in 1..MaxPathLen}

FilenameQueries == {<<>>, <<"x", "=", "1">>, <<"x", "=", "1", "&", "y", "=", "2">>}

FilenameNetlocs == {<<"e", "x", ".", "c", "o", "m">>, <<"a", ":", "8", "0">>}

FilenameSchemes == {<<"h", "t", "t", "p">>, <<"h", "t", "t", "p", "s">>}

ExamplePage == <<"h", "t", "t", "p", "s", ":", "/", "/", "e", "x", ".", "c", "o", "m", "/", "p", "a", "g", "e", "?", "x", "=", "1">>

\* the URLs get_filename is applied to
FilenameInputs ==
  {ExamplePage} \cup
  {sch \o <<":", "/", "/">> \o nl \o p \o (IF q = <<>> THEN <<>> ELSE <<"?">> \o q) :
     sch \in FilenameSchemes, nl \in FilenameNetlocs,
     p \in FilenamePaths, q \in FilenameQueries}

InitFilename ==
  /\ web = WebTwoOrigins
  /\ max_depth = 0
  /\ visited_urls = {}
  /\ stack = <<>>
  /\ mainpc = "start"
  /\ session_closes = 0
  /\ files = [f \in {} |-> NoFile]
  /\ log = <<>>
  /\ faults = 0
  /\ fn_url \in FilenameInputs
  /\ fn_out = <<>>

\* filename = self.get_filename(url)
ApplyGetFilename ==
  /\ fn_url # <<>>
  /\ fn_out = <<>>
  /\ fn_out' = get_filename(fn_url)
  /\ UNCHANGED <<fn_url, web, max_depth, visited_urls, stack, mainpc,
                 session_closes, files, log, faults>>

NextFilename == ApplyGetFilename

SpecFilename == InitFilename /\ [][NextFilename]_vars

\* ------------------------------------------------------------------------
\* Reading the log
\* ------------------------------------------------------------------------

\* the positions of the log with an event of kind ev for url
Positions(ev, url) ==
  {i \in 1..Len(log) : log[i].ev = ev /\ log[i].url = url}

\* the positions of the log with an event of kind ev
PositionsOf(ev) == {i \in 1..Len(log) : log[i].ev = ev}

\* the URLs a page GET was issued for
Fetched == {log[i].url : i \in PositionsOf("get")}

\* the URLs whose GET returned a response
FetchedOk == {log[i].url : i \in {j \in PositionsOf("get") : log[j].res = "ok"}}

\* the scheme and the authority of a URL
Scheme(url) == urlparse(url).scheme

Authority(url) == urlparse(url).netloc

HttpSchemes == {<<"h","t","t","p">>, <<"h","t","t","p","s">>}

\* the events that are work of the crawl: marking, network, delay, files
IsEffect(e) == e.ev \in {"scraping", "robots", "sleep", "get", "save", "close"}

\* the step is not the arrival of a KeyboardInterrupt
NotInterrupted == mainpc' # "interrupted"

\* ------------------------------------------------------------------------
\* C1  visited before any network activity, at most one fetch per URL
\* ------------------------------------------------------------------------

\* C1: in one run, a URL is inserted into visited_urls before any network
\* activity for it (robots.txt check, delay or GET), it never leaves
\* visited_urls afterwards, and at most one page fetch is attempted for
\* each distinct URL string.
C1_VisitedBeforeNetworkFetchedOnce ==
  /\ \A i \in 1..Len(log) : log[i].ev \in {"robots", "sleep", "get"} =>
       /\ log[i].url \in visited_urls
       /\ \E j \in 1..(i - 1) : log[j].ev = "scraping" /\ log[j].url = log[i].url
  /\ \A i \in PositionsOf("scraping") : log[i].url \in visited_urls
  /\ \A u \in Fetched : Cardinality(Positions("get", u)) = 1

\* a URL that was fetched is linked to again (a cycle or a self link) and
\* the second call has returned
C1_Witness ==
  \E i \in PositionsOf("return") :
    /\ log[i].res = "visited"
    /\ log[i].url \in Fetched
    /\ \E j \in Positions("get", log[i].url) : j < i

\* ------------------------------------------------------------------------
\* C2  only links of the same authority with an http(s) scheme are followed
\* ------------------------------------------------------------------------

C3_NegativeDepthDoesNothing ==
  [][ (At("entry") /\ Top.depth < 0 /\ NotInterrupted) =>
        /\ visited_urls' = visited_urls
        /\ files' = files
        /\ session_closes' = session_closes
        /\ SelectSeq(log', IsEffect) = SelectSeq(log, IsEffect)
        /\ stack' = Prefix(stack, Len(stack) - 1) ]_vars

\* a URL refused for its negative depth is visited later through another
\* path
C3_Witness ==
  \E i \in PositionsOf("return") :
    /\ log[i].res = "depth"
    /\ log[i].depth < 0
    /\ \E j \in Positions("scraping", log[i].url) : j > i

\* ------------------------------------------------------------------------
\* C4  a visited URL is not traversed again
\* ------------------------------------------------------------------------

\* C4: for a URL already in visited_urls, whatever the depth, a call of
\* scrape_website performs no fetch, no persistence and no recursion and
\* leaves visited_urls unchanged.
C4_VisitedUrlIsNoOp ==
  [][ (At("entry") /\ Top.url \in visited_urls /\ NotInterrupted) =>
        /\ visited_urls' = visited_urls
        /\ files' = files
        /\ session_closes' = session_closes
        /\ SelectSeq(log', IsEffect) = SelectSeq(log, IsEffect)
        /\ stack' = Prefix(stack, Len(stack) - 1) ]_vars

\* the calls that returned because the URL was visited
Revisits == {i \in PositionsOf("return") : log[i].res = "visited"}

\* a revisit of a URL whose own call is still on the stack
RevisitInProgress ==
  \E i \in Revisits : \E k \in 1..Len(stack) : stack[k].url = log[i].url

\* a revisit of a URL that robots.txt denied
RevisitDenied ==
  \E i \in Revisits : \E j \in Positions("robots", log[i].url) :
    log[j].res = "disallow"

\* a revisit of a URL whose fetch failed
RevisitFailed ==
  \E i \in Revisits : \E j \in Positions("get", log[i].url) : log[j].res # "ok"

\* a revisit of a URL that was fetched and saved, its call finished
RevisitDone ==
  \E i \in Revisits : \E j \in Positions("return", log[i].url) :
    j < i /\ log[j].res = "finished"

\* a URL is called again while its first call is still in progress, with a
\* depth that is not negative
C4_Witness ==
  \E i \in Revisits :
    /\ log[i].depth >= 0
    /\ \E k \in 1..Len(stack) : stack[k].url = log[i].url

\* ------------------------------------------------------------------------
\* C5  robots.txt is asked before the GET, and a denial stops the URL
\* ------------------------------------------------------------------------

\* C5: for every URL traversed the robots.txt check happens before the
\* page GET; when the check answers "disallowed" no GET is issued for the
\* URL, nothing is persisted for it and none of its links is looked at,
\* while the URL stays in visited_urls.
C5_RobotsBeforeGetDenialStops ==
  /\ \A i \in PositionsOf("get") :
       \E j \in 1..(i - 1) :
         log[j].ev = "robots" /\ log[j].url = log[i].url /\ log[j].res # "disallow"
  /\ \A i \in PositionsOf("robots") : log[i].res = "disallow" =>
       /\ Positions("sleep", log[i].url) = {}
       /\ Positions("get", log[i].url) = {}
       /\ Positions("save", log[i].url) = {}
       /\ Positions("link", log[i].url) = {}
       /\ log[i].url \in visited_urls

\* a page below the seed was denied, and the crawl went on to fetch another
C5_Witness ==
  \E i \in PositionsOf("robots") :
    /\ log[i].res = "disallow"
    /\ log[i].url # Seed
    /\ \E j \in PositionsOf("get") : j > i /\ log[j].res = "ok"

\* ------------------------------------------------------------------------
\* C6  a failed fetch returns to the caller
\* ------------------------------------------------------------------------

\* the step issued a GET that failed, or robots.txt denied the URL, in a
\* call that a link of another page made
FetchFailsInStep ==
  /\ Running
  /\ Len(stack) >= 2
  /\ Len(log') > Len(log)
  /\ \/ log'[Len(log) + 1].ev = "get" /\ log'[Len(log) + 1].res # "ok"
     \/ log'[Len(log) + 1].ev = "robots" /\ log'[Len(log) + 1].res = "disallow"

\* C6: when the fetch of a page fails for any reason (network error,
\* timeout, error status, denial, or any other error raised while
\* fetching), scrape_website for that URL returns normally to its caller:
\* the caller's call stays as it was, with every remaining sibling link
\* still to traverse, and nothing is raised to an ancestor or to main().
C6_FetchFailureReturnsToCaller ==
  [][ FetchFailsInStep =>
        /\ stack' = Prefix(stack, Len(stack) - 1)
        /\ mainpc' = "running" ]_vars

\* the same for the failures download_page handles: a RequestException and
\* a denial by robots.txt
C6_HandledFailureReturnsToCaller ==
  [][ (FetchFailsInStep /\ log'[Len(log) + 1].res # "other_exception") =>
        /\ stack' = Prefix(stack, Len(stack) - 1)
        /\ mainpc' = "running" ]_vars

\* ------------------------------------------------------------------------
\* C7  a parse error ends the page, not the crawl
\* ------------------------------------------------------------------------

\* parsing the content of the page on top of the stack raises now: in the
\* constructor, or in resolving the next link
ParseRaisesNow ==
  \/ At("parse") /\ SoupRaises(Top.html)
  \/ At("loop") /\ Top.links # <<>> /\ urljoin(Top.url, Head(Top.links)).err

\* C7: when parsing the content of a page P raises an error,
\* scrape_website(P) returns normally: the parent call is left as it was,
\* at its loop with the links that follow P still to traverse, and no
\* other call is ended.
C7_ParseErrorContained ==
  [][ (ParseRaisesNow /\ NotInterrupted) =>
        /\ stack' = Prefix(stack, Len(stack) - 1)
        /\ mainpc' = IF Len(stack) = 1 THEN "returned" ELSE "running" ]_vars

\* the constructor raised on a page below the seed, and the parent went on
\* to the next link and fetched it
C7_Witness ==
  \E i \in PositionsOf("return") :
    /\ log[i].res = "parse_error"
    /\ log[i].url = U_p
    /\ i < Len(log)
    /\ log[i + 1].ev = "link"
    /\ log[i + 1].depth = log[i].depth + 1
    /\ \E j \in PositionsOf("get") : j > i /\ log[j].url = log[i + 1].data

\* ------------------------------------------------------------------------
\* C8  can_fetch fails open
\* ------------------------------------------------------------------------

\* C8: when reading or parsing robots.txt raises, can_fetch returns True,
\* and the traversal goes on to the delay and the page GET of that URL,
\* exactly as when the rules allow it.
C8_CanFetchFailsOpen ==
  \A i \in PositionsOf("robots") : log[i].res \in {"error", "allow"} =>
    /\ i < Len(log) =>
         /\ log[i + 1].ev \in {"sleep", "interrupt"}
         /\ log[i + 1].url = log[i].url
    /\ (i + 1 < Len(log) /\ log[i + 1].ev = "sleep") =>
         /\ log[i + 2].ev \in {"get", "interrupt"}
         /\ log[i + 2].url = log[i].url

\* robots.txt could not be read for a URL, and the URL was fetched
C8_Witness ==
  \E i \in PositionsOf("robots") :
    /\ log[i].res = "error"
    /\ i + 1 < Len(log)
    /\ log[i + 1].ev = "sleep"
    /\ log[i + 2].ev = "get"
    /\ log[i + 2].res = "ok"
    /\ log[i + 2].url = log[i].url

\* ------------------------------------------------------------------------
\* C9  every successful fetch is persisted once
\* ------------------------------------------------------------------------

\* C9: every successful fetch of a URL is followed by exactly one save_page
\* call for that URL with the returned content, before link extraction,
\* whatever the content, the empty body included; no save_page call
\* happens for a URL whose fetch did not succeed.
C9_EverySuccessfulFetchSaved ==
  /\ \A i \in PositionsOf("get") :
       (log[i].res = "ok" /\ i < Len(log) /\ log[i + 1].ev # "interrupt") =>
         /\ log[i + 1].ev = "save"
         /\ log[i + 1].url = log[i].url
         /\ log[i + 1].data = log[i].data
  /\ \A u \in FetchedOk : Cardinality(Positions("save", u)) <= 1
  /\ \A i \in PositionsOf("save") : log[i].url \in FetchedOk
  /\ \A i \in PositionsOf("parsed") \cup PositionsOf("link") :
       \E j \in Positions("save", log[i].url) : j < i

\* the same for the fetches that return a body that is not empty
C9_NonEmptyFetchSaved ==
  /\ \A i \in PositionsOf("get") :
       (log[i].res = "ok" /\ log[i].data # <<>> /\ i < Len(log)
          /\ log[i + 1].ev # "interrupt") =>
         /\ log[i + 1].ev = "save"
         /\ log[i + 1].url = log[i].url
         /\ log[i + 1].data = log[i].data
  /\ \A u \in FetchedOk : Cardinality(Positions("save", u)) <= 1
  /\ \A i \in PositionsOf("save") : log[i].url \in FetchedOk
  /\ \A i \in PositionsOf("parsed") \cup PositionsOf("link") :
       \E j \in Positions("save", log[i].url) : j < i

\* ------------------------------------------------------------------------
\* C10  get_filename
\* ------------------------------------------------------------------------

\* url without its query (and the "?" before it)
WithoutQuery(url) ==
  IF Find(url, "?") > 0 THEN Prefix(url, Find(url, "?") - 1) ELSE url

\* the name the claim gives: the path rules applied to the path, then the
\* query appended to the name with "?", "&", "=" flattened to "_"
ClaimedFilename(url) ==
  LET parsed == urlparse(url)
      flat   == IF parsed.query = <<>> THEN <<>>
                ELSE sanitize_path(<<"?">> \o parsed.query)
      named  == filename_path(parsed.path)
      ext    == splitext_ext(named)
      stem   == Prefix(named, Len(named) - Len(ext))
  IN base_dir \o <<"/">> \o sanitize_netloc(parsed.netloc) \o stem \o flat \o ext

\* C10: get_filename maps the root path to <base>/<authority>/index.html,
\* appends index.html to a path ending in "/", appends .html to a final
\* segment without extension, turns ":" of the authority into "_", and
\* flattens the query into the name, so that https://ex.com/page?x=1 maps
\* to <base>/ex.com/page_x_1.html and two URLs that differ in their query
\* only map to different paths.
C10_GetFilenameUsesQuery ==
  fn_out # <<>> =>
    /\ fn_out = ClaimedFilename(fn_url)
    /\ fn_url = ExamplePage => fn_out = base_dir \o <<"/", "e", "x", ".", "c", "o", "m", "/", "p", "a", "g", "e", "_", "x", "_", "1", ".", "h", "t", "m", "l">>
    /\ urlparse(fn_url).query # <<>> => fn_out # get_filename(WithoutQuery(fn_url))

\* ------------------------------------------------------------------------
\* C11  the scenario of two origins, and pages reached with depth 0
\* ------------------------------------------------------------------------

\* the URLs of the page GETs issued so far, in the order they were issued
FetchOrder ==
  LET IsGet(e) == e.ev = "get"
      gets     == SelectSeq(log, IsGet)
  IN [i \in 1..Len(gets) |-> gets[i].url]

\* the seed call has returned and nothing was interrupted or injected
CompletedCleanly ==
  /\ mainpc \in {"returned", "done"}
  /\ faults = 0
  /\ PositionsOf("interrupt") = {}

\* the directory of the seed's authority under base_dir
SeedDir == path_join(base_dir, Authority(Seed) \o <<"/">>)

DepthZeroPageFollowsLink ==
  \E i \in PositionsOf("link") :
    log[i].res = "followed" /\ log[i].depth = 0 /\ i < Len(log)

LeftTraversal == mainpc \in {"returned", "interrupted", "raised"}

\* main() has ended
MainEnded == mainpc \in {"done", "failed"}

\* C12: however the traversal ends (the seed call returns, a
\* KeyboardInterrupt arrives at any step at any recursion depth, another
\* exception escapes), session.close() then runs, exactly once; it is the
\* last thing the run does, so no fetch and no save follows it; and from the
\* arrival of an interruption on visited_urls and the files do not change.
C12_SessionClosedOnceOnEveryExit ==
  /\ [](/\ session_closes <= 1
        /\ MainEnded <=> session_closes = 1
        /\ MainEnded <=> PositionsOf("close") # {}
        /\ \A i \in PositionsOf("close") : i = Len(log))
  /\ [][(mainpc' = "interrupted" \/ mainpc \notin {"start", "running"}) =>
          /\ visited_urls' = visited_urls
          /\ files' = files
          /\ stack' = <<>>]_vars
  /\ [][session_closes >= 1 => log' = log]_vars
  /\ LeftTraversal ~> (session_closes = 1 /\ MainEnded)

\* an interruption arrived two calls deep after a page was saved, and the
\* session has been closed
C12_Witness ==
  /\ mainpc = "done"
  /\ session_closes = 1
  /\ DOMAIN files # {}
  /\ \E i \in PositionsOf("interrupt") :
       log[i].depth < max_depth /\ log[i].depth >= 0

\* the session has been closed after an exception escaped the seed call
ClosedAfterEscape == mainpc = "failed" /\ session_closes = 1

\* the session has been closed after the seed call returned
ClosedAfterReturn ==
  mainpc = "done" /\ PositionsOf("interrupt") = {} /\ DOMAIN files # {}

\* ------------------------------------------------------------------------
\* C13  a delay before every page request
\* ------------------------------------------------------------------------

\* C13: every GET of a page comes directly after one time.sleep(self.delay)
\* made for that same page, so between any two GETs of a run there is a
\* delay, whatever the outcome of the earlier one was.
C13_DelayBeforeEveryFetch ==
  /\ \A i \in PositionsOf("get") :
        /\ i > 1
        /\ log[i - 1].ev = "sleep"
        /\ log[i - 1].url = log[i].url
        /\ log[i - 1].data = <<delay>>
  /\ \A i, j \in PositionsOf("get") :
        i < j => \E k \in PositionsOf("sleep") : i < k /\ k < j
  /\ \A k \in PositionsOf("sleep") :
        k < Len(log) => log[k + 1].ev \in {"get", "interrupt"}

\* a GET that failed has been followed by the GET of another page
C13_Witness ==
  \E i, j \in PositionsOf("get") :
    i < j /\ log[i].res = "request_exception" /\ log[j].res = "ok"

\* ------------------------------------------------------------------------
\* C14  robots.txt retrieved once per scheme and authority
\* ------------------------------------------------------------------------

\* the robots.txt URLs rp.read() has retrieved so far, one entry per retrieval
RobotsReads ==
  LET IsRead(e) == e.ev = "robots"
      reads     == SelectSeq(log, IsRead)
  IN [i \in 1..Len(reads) |-> reads[i].data]

\* C14: the robots.txt of a scheme and authority is retrieved at most once
\* in a run; later permission queries for pages of that authority retrieve
\* nothing.
C14_RobotsRetrievedOncePerAuthority ==
  \A i, j \in 1..Len(RobotsReads) :
    RobotsReads[i] = RobotsReads[j] => i = j

\* every page whose download starts has its own retrieval of robots.txt
C14_RobotsRetrievedForEveryPage ==
  \A i \in PositionsOf("sleep") :
    /\ i > 1
    /\ log[i - 1].ev = "robots"
    /\ log[i - 1].url = log[i].url
    /\ log[i - 1].data = robots_url(log[i].url)

\* ------------------------------------------------------------------------
\* C15  depth first, in document order
\* ------------------------------------------------------------------------

\* the positions of the log where the loop of page url handled a link
LinkPositions(url) == Positions("link", url)

\* the k-th link the loop of page url handled, as a position of the log
LinkPosition(url, k) ==
  CHOOSE i \in LinkPositions(url) :
    Cardinality({j \in LinkPositions(url) : j <= i}) = k

\* the k-th element of the content of page url that is an <a> with an href,
\* resolved against url as line 124 does; the href itself when that raises
DocumentLink(url, k) ==
  LET at == CHOOSE i \in 1..Len(web[url]) :
              /\ web[url][i].tag = "a" /\ web[url][i].has_href
              /\ Cardinality({j \in 1..i : web[url][j].tag = "a"
                                              /\ web[url][j].has_href}) = k
      joined == urljoin(url, web[url][at].href)
  IN IF joined.err THEN web[url][at].href ELSE joined.url

\* the number of such elements
DocumentLinkCount(url) ==
  Cardinality({i \in 1..Len(web[url]) :
                 web[url][i].tag = "a" /\ web[url][i].has_href})

\* C15: the loop of a page handles its links in the order they stand in the
\* content, and between one link of the page and the next nothing happens
\* but the recursion below the first: every entry of the log between them
\* belongs to a deeper call, a skipped link is followed at once by the next
\* one, and the call made for a followed link has returned before the next
\* link is handled, so its fetch and all fetches below it come first.
C15_DepthFirstDocumentOrder ==
  \A url \in FetchedOk :
    LET n == Cardinality(LinkPositions(url))
    IN /\ n <= DocumentLinkCount(url)
       /\ \A k \in 1..n :
            log[LinkPosition(url, k)].data = DocumentLink(url, k)
       /\ \A k \in 1..(n - 1) :
            LET i == LinkPosition(url, k)
                j == LinkPosition(url, k + 1)
            IN /\ \A m \in (i + 1)..(j - 1) : log[m].depth < log[i].depth
               /\ log[i].res = "skipped" => j = i + 1
               /\ log[i].res = "followed" =>
                    /\ log[j - 1].ev = "return"
                    /\ log[j - 1].url = log[i].data
                    /\ log[j - 1].depth = log[i].depth - 1

\* a page has followed two links, the first of which led to fetches at two
\* levels below it before the second was handled
C15_Witness ==
  \E url \in FetchedOk :
    \E i, j \in LinkPositions(url) :
      /\ i < j
      /\ log[i].res = "followed" /\ log[j].res = "followed"
      /\ \E m1, m2 \in PositionsOf("get") :
           /\ i < m1 /\ m1 < m2 /\ m2 < j
           /\ log[m1].depth = log[i].depth - 1
           /\ log[m2].depth = log[i].depth - 2

\* ------------------------------------------------------------------------
\* C16  a failed save is contained in save_page
\* ------------------------------------------------------------------------

\* the step is save_page failing for the page of the running call
SaveFailsInStep ==
  /\ At("save")
  /\ Len(log') = Len(log) + 1
  /\ log'[Len(log')].ev = "save"
  /\ log'[Len(log')].res = "io_error"

\* the step is save_page running for the page of the running call
SaveRunsInStep == At("save") /\ NotInterrupted

\* C16: an I/O error in save_page stays in save_page. The call of
\* scrape_website goes on to line 118 in the state a successful save would
\* have left it in, with no file written; what follows a save in the log
\* (parsing, then the page's links in order, each recursed into as the
\* filter decides) does not depend on how the save ended.
C16_SaveFailureContained ==
  /\ [][SaveRunsInStep =>
          /\ stack' = [stack EXCEPT ![Len(stack)].pc = "parse"]
          /\ mainpc' = mainpc
          /\ visited_urls' = visited_urls]_vars
  /\ [][SaveFailsInStep => files' = files]_vars
  /\ [](\A i \in PositionsOf("save") :
          /\ i < Len(log) =>
               \/ log[i + 1].ev = "interrupt"
               \/ log[i + 1].ev = "parsed" /\ log[i + 1].url = log[i].url
               \/ /\ log[i + 1].ev = "return" /\ log[i + 1].url = log[i].url
                  /\ log[i + 1].res = "parse_error"
          /\ (\E r \in Positions("return", log[i].url) :
                 log[r].res = "finished" /\ log[r].depth = log[i].depth) =>
               Cardinality(LinkPositions(log[i].url)) =
                 DocumentLinkCount(log[i].url))

\* the save of a page failed, and a link of that page was then followed and
\* fetched
C16_Witness ==
  \E i \in PositionsOf("save") :
    /\ log[i].res = "io_error"
    /\ \E j \in LinkPositions(log[i].url) :
         /\ i < j
         /\ log[j].res = "followed"
         /\ \E g \in Positions("get", log[j].data) : j < g /\ log[g].res = "ok"

\* ------------------------------------------------------------------------
\* C17  the traversal ends, with a bounded number of fetches
\* ------------------------------------------------------------------------

\* the URLs the links of page url lead to that pass the filter of lines
\* 129-130; a URL that is no page of the graph has no links
LinksOf(url) ==
  IF url \notin DOMAIN web THEN {}
  ELSE LET hrefs == {web[url][i].href :
                       i \in {j \in 1..Len(web[url]) :
                                web[url][j].tag = "a" /\ web[url][j].has_href}}
           ok    == {h \in hrefs : ~urljoin_of[url][h].err}
       IN {urljoin_of[url][h].url :
             h \in {g \in ok : same_domain_of[url][urljoin_of[url][g].url]}}

\* the URLs at most d links away from the seed
WithinHops[d \in 0..MaxDepthBound] ==
  IF d = 0 THEN {Seed}
  ELSE WithinHops[d - 1] \cup UNION {LinksOf(u) : u \in WithinHops[d - 1]}

\* url is being visited: a call for it has passed line 109 and not ended
Visiting(url) ==
  \E k \in 1..Len(stack) : stack[k].url = url /\ stack[k].pc # "entry"

\* the traversal is over: no call of scrape_website is left
TraversalOver == mainpc \notin {"start", "running"} /\ stack = <<>>

\* the GET of the seed itself raised something download_page does not catch
SeedFetchRaised ==
  \E i \in Positions("get", Seed) :
    log[i].res = "other_exception" /\ log[i].depth = max_depth

ExtractionFailed ==
  {log[i].url : i \in {j \in PositionsOf("return") : log[j].res = "parse_error"}}

\* C18: a page whose link extraction failed contributes no candidate: none
\* of its links is recursed into, neither one before the failing link nor one
\* after it; in particular no call made for a link of that page gets as far
\* as marking and downloading the link's target.
C18_FailedExtractionFollowsNoLink ==
  \A url \in ExtractionFailed :
    \A i \in LinkPositions(url) :
      ~(/\ log[i].res = "followed"
        /\ i < Len(log)
        /\ log[i + 1].ev = "scraping"
        /\ log[i + 1].url = log[i].data)

\* content that does not parse yields no link at all, and after a link that
\* does not resolve no further link of the page is handled
C18_NoLinkAfterFailure ==
  /\ \A url \in ExtractionFailed :
        (url \in DOMAIN web /\ SoupRaises(web[url])) => LinkPositions(url) = {}
  /\ \A i \in PositionsOf("link") :
        log[i].res = "unresolved" =>
          /\ \A j \in LinkPositions(log[i].url) : j <= i
          /\ i < Len(log) =>
               \/ log[i + 1].ev = "interrupt"
               \/ /\ log[i + 1].ev = "return"
                  /\ log[i + 1].url = log[i].url
                  /\ log[i + 1].res = "parse_error"

\* ------------------------------------------------------------------------
\* C19  what is visited lies within max_depth links of the seed
\* ------------------------------------------------------------------------

\* the call that marked log[i].url was made for a link found on a page that
\* had been fetched, with that page's authority and one less than its depth
ReachedByLink(i) ==
  /\ i > 1
  /\ log[i - 1].ev = "link"
  /\ log[i - 1].res = "followed"
  /\ log[i - 1].data = log[i].url
  /\ log[i].depth = log[i - 1].depth - 1
  /\ Authority(log[i].url) = Authority(log[i - 1].url)
  /\ \E g \in Positions("get", log[i - 1].url) : g < i /\ log[g].res = "ok"
  /\ \E m \in Positions("scraping", log[i - 1].url) : m < i

\* C19: every URL of visited_urls is the seed or was reached from it through
\* at most max_depth links, each found on a page that was fetched and each
\* keeping the authority; so whatever is marked, fetched or saved has the
\* seed's authority, an http(s) scheme, and a depth from 0 to max_depth.
C19_VisitedWithinDepthOfSeed ==
  /\ visited_urls = {log[i].url : i \in PositionsOf("scraping")}
  /\ \A i \in PositionsOf("scraping") :
        \/ log[i].url = Seed /\ log[i].depth = max_depth /\ i = 1
        \/ ReachedByLink(i)
  /\ max_depth >= 0 => visited_urls \subseteq WithinHops[max_depth]
  /\ max_depth < 0 => visited_urls = {}
  /\ \A url \in visited_urls :
        Authority(url) = Authority(Seed) /\ Scheme(url) \in HttpSchemes
  /\ \A i \in 1..Len(log) :
        log[i].ev \in {"scraping", "robots", "sleep", "get", "save"} =>
          /\ log[i].depth \in 0..max_depth
          /\ log[i].url \in visited_urls
          /\ Authority(log[i].url) = Authority(Seed)
  /\ \A f \in DOMAIN files :
        \E url \in visited_urls : f = get_filename_of[url]

\* a page two links away from the seed has been fetched with depth 0 after
\* its parent was saved, on a graph that also links to another authority
C19_Witness ==
  /\ web = WebSchemes
  /\ max_depth = 2
  /\ \E i \in PositionsOf("get") :
       /\ log[i].depth = 0
       /\ log[i].res = "ok"
       /\ log[i].url \notin WithinHops[1]
  /\ \E i \in PositionsOf("save") : log[i].depth = 1 /\ log[i].res = "ok"

\* ------------------------------------------------------------------------
\* C20  coverage up to the depth bound
\* ------------------------------------------------------------------------

\* the seed call has returned and on the way every robots query allowed the
\* page, every GET returned content, every save and every parse succeeded
CompletedWithoutFailure ==
  /\ CompletedCleanly
  /\ \A i \in PositionsOf("get") : log[i].res = "ok" /\ log[i].data # EmptyBody
  /\ \A i \in PositionsOf("return") :
        log[i].res \in {"finished", "visited", "depth"}

\* C20: when the traversal completes with every fetch permitted and
\* successful, every URL within max_depth same-authority http(s) links of
\* the seed has had a GET attempted, in whatever order the links stand on
\* the pages.
C20_CoverageWithinDepth ==
  (CompletedWithoutFailure /\ max_depth >= 0) =>
    WithinHops[max_depth] \subseteq Fetched

\* the pages the seed links to directly are covered
C20_DirectLinksCovered ==
  (CompletedWithoutFailure /\ max_depth >= 1) => WithinHops[1] \subseteq Fetched

====
